---- MODULE Spec2Model ----
(***************************************************************************)
(* Model of element_volume/export/bossdb.py: class BossDBUpload.           *)
(*                                                                         *)
(* A session is constructed (__init__), and afterwards its public methods  *)
(* upload() and try_create_new() may be called any number of times.  The   *)
(* remote store (BossRemote / BossDBInterface) is the environment: it      *)
(* holds the resources that exist and may answer any call with a fault.    *)
(***************************************************************************)
EXTENDS Integers, Sequences, FiniteSets, TLC

\* ---------------------------------------------------------------- bounds
MaxDepth == 3
MaxIncrement == 2
MaxRetry == 2

\* ------------------------------------------------------------- constants
None == "None"
Unset == "unset"
NoName == "-"

VARIABLES
    overwrite,          \* __init__ argument overwrite
    raw_data,           \* None, or "array" when an in-memory array is given
    raw_len,            \* number of z slices of the in-memory array
    data_files,         \* number of files in data_dir matching "*" + data_extension
    dtype_arg,          \* __init__ argument dtype: None or "explicit"
    shape_z,            \* self._shape_zyx[0]
    upload_increment,   \* self._upload_increment
    retry_max,          \* self._retry_max
    url_exists,         \* self.url_exists: Unset before line 60, then "yes" or "no"
    dtype,              \* self._dtype, Unset until line 73 / 75
    image_paths,        \* self._image_paths: Unset until line 72, then "paths" (data_files of them)
    resources,          \* self._resources: the cached descriptors
    remote,             \* the remote store: resource key -> Absent or the stored resource
    pc,                 \* position of the program
    caller,             \* who called try_create_new: "init" or "user"
    step,               \* provisioning step 1..5 inside try_create_new
    i,                  \* loop variable of upload()
    z_limit,            \* z_limit of the current slab
    stack_len,          \* stack_shape[0] of the current slab
    retry_count,        \* retry_count of the current slab
    calls,              \* remote calls issued by the current operation
    attempts,           \* executions of the try body (lines 121-127) in the current upload()
    slabs,              \* slab ranges <<i, z_limit>> iterated by the current upload()
    outcome,            \* how the last operation ended
    hier,               \* names returned by the steps of the current try_create_new run
    prev_hier           \* names returned by the directly preceding try_create_new run, if it completed

inputs == <<overwrite, raw_data, raw_len, data_files, dtype_arg, shape_z, upload_increment, retry_max>>

session == <<url_exists, dtype, image_paths, resources>>

loop == <<i, z_limit, stack_len, retry_count>>

vars == <<inputs, session, remote, pc, caller, step, loop, calls, attempts, slabs, outcome, hier, prev_hier>>

\* ------------------------------------------------------------ descriptors
\* the five descriptors of the resources property, in the order try_create_new uses them
Steps == <<"collection", "coord_frame", "experiment", "channel_resource", "channel">>

\* identity of a descriptor in the remote store: both ChannelResource
\* descriptors carry name = url_bits.channel under the same collection and experiment
RemoteKey(obj) == IF obj = "channel_resource" THEN "channel" ELSE obj

Keys == {"collection", "coord_frame", "experiment", "channel"}

\* coord_name = f"CF_{collection}_{experiment}"
coord_name == "CF_col_exp"

\* the name each descriptor asks for
RequestedName(obj) ==
    CASE obj = "collection" -> "col"
      [] obj = "coord_frame" -> coord_name
      [] obj = "experiment" -> "exp"
      [] OTHER -> "chan"

\* the names the remote store may report for a resource: the coordinate frame
\* may be resolved by the service under another name
ConfirmedNames(key) ==
    IF key = "coord_frame" THEN {coord_name, "CF_other"} ELSE {RequestedName(key)}

NoHier == [s \in 1..5 |-> NoName]

\* self._resources = dict(): nothing cached yet
NoResources == [built |-> FALSE, experiment_coord_frame |-> NoName, channel_sources |-> <<>>, datatype |-> NoName]

Min(a, b) == IF a < b THEN a ELSE b

Max(a, b) == IF a > b THEN a ELSE b

\* ------------------------------------------------------------ environment
\* a resource of the remote store: its name and what its descriptor referred to
Resource(n, ref) == [name |-> n, ref |-> ref]

Absent == Resource(NoName, <<>>)

\* a resource that existed before the session
PreExisting(key, n) == Resource(n, <<"pre">>)

\* states of the remote store before the session: a channel lives in an
\* experiment, an experiment in a collection; the coordinate frame called
\* coord_name is independent of them
RemoteStates ==
    {r \in [Keys -> {Absent} \cup UNION {{PreExisting(k, n) : n \in ConfirmedNames(k)} : k \in Keys}] :
        /\ \A k \in Keys : r[k] # Absent => r[k].name \in ConfirmedNames(k)
        /\ r["channel"] # Absent => r["experiment"] # Absent
        /\ r["experiment"] # Absent => r["collection"] # Absent}

\* BossDBInterface(url).exists
ChannelExists == remote["channel"] # Absent

YesNo(b) == IF b THEN "yes" ELSE "no"

\* answers of remote.get_project(obj): the resource, HTTPError 404, an
\* HTTPError with another status (403, 500, ...), or an error that is not an HTTPError
GetOutcomes(key) ==
    IF remote[key] # Absent THEN {"found", "http_error", "conn_error"}
    ELSE {"not_found", "http_error", "conn_error"}

\* answers of remote.create_project(obj): the store refuses, or it creates
\* the resource; for a resource it already holds "created" answers with that
\* resource (whether it accepts such a request at all is its own policy)
CreateOutcomes(key) == {"created", "create_error"}

\* the names a successful create_project may answer with
CreatedNames(key) ==
    IF remote[key] = Absent THEN ConfirmedNames(key) ELSE {remote[key].name}

\* the store after a successful create_project
Store(key, n, ref) ==
    IF remote[key] = Absent THEN [remote EXCEPT ![key] = Resource(n, ref)] ELSE remote

\* answers of one execution of the try body: building the dataset handle may
\* fail, the cutout write may fail
WriteOutcomes == {"ok", "open_error", "write_error"}

\* answers of _np_from_images for a non-empty range of files
DecodeOutcomes == {"ok", "decode_error"}

\* -------------------------------------------------------------- bookkeeping
Call(op, obj, ref, dt, z, len, res, ret) ==
    [op |-> op, obj |-> obj, ref |-> ref, dt |-> dt, z |-> z, len |-> len, res |-> res, ret |-> ret]

Ended(op, status, err) == [op |-> op, status |-> status, err |-> err]

Running(op) == Ended(op, "running", NoName)

\* ------------------------------------------------------------------- Init
\* the arguments of __init__ and the store the session meets; shape_zyx is the
\* shape of the data, so an array holds shape_z slices and a directory holds
\* shape_z matching files, or none at all
Init ==
    /\ overwrite \in BOOLEAN
    /\ shape_z \in 1..MaxDepth
    /\ upload_increment \in 1..MaxIncrement
    /\ retry_max \in 0..MaxRetry
    /\ dtype_arg \in {None, "explicit"}
    /\ \/ raw_data = "array" /\ raw_len = shape_z /\ data_files = 0
       \/ raw_data = None /\ raw_len = 0 /\ data_files \in {0, shape_z}
    /\ remote \in RemoteStates
    /\ url_exists = Unset
    /\ dtype = Unset
    /\ image_paths = Unset
    /\ resources = NoResources
    /\ pc = "new"
    /\ caller = "init"
    /\ step = 1
    /\ i = 0
    /\ z_limit = 0
    /\ stack_len = 0
    /\ retry_count = 0
    /\ calls = <<>>
    /\ attempts = <<>>
    /\ slabs = <<>>
    /\ outcome = Running("init")
    /\ hier = NoHier
    /\ prev_hier = NoHier

\* --------------------------------------------------------------- __init__
\* line 61: if not overwrite and self.url_exists
GateClosedInverted(ow, exists) == ~ow /\ ~exists

GateClosed(ow, exists) == ~ow /\ exists

\* lines 45-69: store the arguments, ask whether the channel exists, then
\* return early, provision, or go on to the data source
init ==
    /\ pc = "new"
    /\ url_exists' = YesNo(ChannelExists)
    /\ calls' = <<Call("exists", "channel", <<>>, NoName, 0, 0, YesNo(ChannelExists), NoName)>>
    /\ IF GateClosed(overwrite, ChannelExists)
       THEN /\ pc' = "idle"
            /\ outcome' = Ended("init", "returned", NoName)
            /\ caller' = caller
       ELSE IF ~ChannelExists
       THEN /\ pc' = "tcn_enter"
            /\ caller' = "init"
            /\ outcome' = outcome
       ELSE /\ pc' = "init_source"
            /\ outcome' = outcome
            /\ caller' = caller
    /\ UNCHANGED <<inputs, dtype, image_paths, resources, remote, step, loop, attempts, slabs, hier, prev_hier>>

\* fetch_images: the sorted listing (its length), or the no-files error
fetch_images == IF data_files = 0 THEN "DataJointError" ELSE "paths"

\* line 73: dtype or None;  line 75: dtype or self._raw_data.dtype
ResolveDtype(arg, natural) == IF arg # None THEN arg ELSE natural

\* lines 71-75: resolve the data source and the dtype
init_source ==
    /\ pc = "init_source"
    /\ IF raw_data = None
       THEN IF fetch_images = "DataJointError"
            THEN /\ pc' = "failed"
                 /\ outcome' = Ended("init", "raised", "DataJointError")
                 /\ UNCHANGED <<image_paths, dtype>>
            ELSE /\ image_paths' = fetch_images
                 /\ dtype' = ResolveDtype(dtype_arg, None)
                 /\ pc' = "idle"
                 /\ outcome' = Ended("init", "returned", NoName)
       ELSE /\ dtype' = ResolveDtype(dtype_arg, "natural")
            /\ pc' = "idle"
            /\ outcome' = Ended("init", "returned", NoName)
            /\ UNCHANGED image_paths
    /\ UNCHANGED <<inputs, url_exists, resources, remote, caller, step, loop, calls, attempts, slabs, hier, prev_hier>>

\* --------------------------------------------------------- try_create_new
\* lines 150-196, the resources property: the cached dict, or the five
\* descriptors built from the session's fields; datatype reads self._dtype
BuildResources ==
    IF resources.built THEN resources
    ELSE [built |-> TRUE, experiment_coord_frame |-> coord_name, channel_sources |-> <<>>, datatype |-> dtype]

\* the descriptor try_create_new hands to _get_or_create at step s: what it
\* refers to (coord_frame of the experiment, sources of the channel) and its datatype
DescriptorRef(res, s) ==
    CASE Steps[s] = "experiment" -> <<res.experiment_coord_frame>>
      [] Steps[s] = "channel" -> res.channel_sources
      [] OTHER -> <<>>

DescriptorDtype(res, s) ==
    IF Steps[s] \in {"channel_resource", "channel"} THEN res.datatype ELSE NoName

\* line 211 experiment.coord_frame = true_coord_frame.name, and
\* line 219 channel.sources = [channel_resource.name]: what the result of
\* step s changes in the descriptors
PropagateStale(res, s, name) ==
    CASE Steps[s] = "channel_resource" -> [res EXCEPT !.channel_sources = <<name>>]
      [] OTHER -> res

Propagate(res, s, name) ==
    CASE Steps[s] = "coord_frame" -> [res EXCEPT !.experiment_coord_frame = name]
      [] Steps[s] = "channel_resource" -> [res EXCEPT !.channel_sources = <<name>>]
      [] OTHER -> res

\* an exception leaves try_create_new: it ends __init__ (line 69) or the user's call
TcnRaise(err) ==
    IF caller = "init"
    THEN pc' = "failed" /\ outcome' = Ended("init", "raised", err)
    ELSE pc' = "idle" /\ outcome' = Ended("try_create_new", "raised", err)

\* try_create_new returns to line 71 of __init__ or to the user
TcnReturn ==
    IF caller = "init"
    THEN pc' = "init_source" /\ outcome' = outcome
    ELSE pc' = "idle" /\ outcome' = Ended("try_create_new", "returned", NoName)

\* step s of try_create_new got its result: remember it, propagate it, go on
StepDone(name) ==
    /\ hier' = [hier EXCEPT ![step] = name]
    /\ resources' = Propagate(resources, step, name)
    /\ IF step = Len(Steps)
       THEN TcnReturn /\ step' = step
       ELSE pc' = "get" /\ step' = step + 1 /\ outcome' = outcome

\* a new call on the session starts with empty logs; a try_create_new run
\* that directly follows a completed run keeps that run's names for comparison
NewOperation(op) ==
    /\ calls' = <<>>
    /\ attempts' = <<>>
    /\ slabs' = <<>>
    /\ prev_hier' = IF op = "try_create_new" /\ outcome = Ended(op, "returned", NoName)
                    THEN hier ELSE NoHier
    /\ hier' = NoHier
    /\ step' = 1
    /\ i' = 0
    /\ z_limit' = 0
    /\ stack_len' = 0
    /\ retry_count' = 0

\* the user calls try_create_new() on a constructed session
call_try_create_new ==
    /\ pc = "idle"
    /\ pc' = "tcn_enter"
    /\ caller' = "user"
    /\ outcome' = Running("try_create_new")
    /\ NewOperation("try_create_new")
    /\ UNCHANGED <<inputs, session, remote>>

\* lines 198-202: remote = BossRemote(), then the first self.resources, which
\* raises AttributeError while self._dtype is not set
try_create_new ==
    /\ pc = "tcn_enter"
    /\ IF ~resources.built /\ dtype = Unset
       THEN /\ TcnRaise("AttributeError")
            /\ UNCHANGED <<resources, step>>
       ELSE /\ resources' = BuildResources
            /\ step' = 1
            /\ pc' = "get"
            /\ outcome' = outcome
    /\ UNCHANGED <<inputs, url_exists, dtype, image_paths, remote, caller, loop, calls, attempts, slabs, hier, prev_hier>>

\* line 225, except HTTPError: the answers of get_project that lead to create_project
CaughtAlways(res) == TRUE

Caught(res) == res \in {"not_found", "http_error"}

\* lines 223-225: result = remote.get_project(obj)
get_project ==
    /\ pc = "get"
    /\ \E res \in GetOutcomes(RemoteKey(Steps[step])) :
        LET key == RemoteKey(Steps[step])
            ret == IF res = "found" THEN remote[key].name ELSE NoName
        IN /\ calls' = Append(calls, Call("get", Steps[step], DescriptorRef(resources, step),
                                          DescriptorDtype(resources, step), 0, 0, res, ret))
           /\ IF Caught(res)
              THEN /\ pc' = "create"
                   /\ UNCHANGED <<resources, step, outcome, hier>>
              ELSE IF res = "found"
              THEN StepDone(ret)
              ELSE /\ TcnRaise(res)
                   /\ UNCHANGED <<resources, step, hier>>
    /\ UNCHANGED <<inputs, url_exists, dtype, image_paths, remote, caller, loop, attempts, slabs, prev_hier>>

\* lines 226-228: result = remote.create_project(obj)
create_project ==
    /\ pc = "create"
    /\ \E res \in CreateOutcomes(RemoteKey(Steps[step])) :
        LET key == RemoteKey(Steps[step])
            ref == DescriptorRef(resources, step)
        IN IF res = "created"
           THEN \E n \in CreatedNames(key) :
                   /\ remote' = Store(key, n, ref)
                   /\ calls' = Append(calls, Call("create", Steps[step], ref,
                                                  DescriptorDtype(resources, step), 0, 0, res, n))
                   /\ StepDone(n)
           ELSE /\ calls' = Append(calls, Call("create", Steps[step], ref,
                                               DescriptorDtype(resources, step), 0, 0, res, NoName))
                /\ TcnRaise(res)
                /\ UNCHANGED <<remote, resources, step, hier>>
    /\ UNCHANGED <<inputs, url_exists, dtype, image_paths, caller, loop, attempts, slabs, prev_hier>>

\* ----------------------------------------------------------------- upload
\* line 105: z_limit = min(i + self._upload_increment, z_max)
ZLimitUnclamped(start, increment, z_max) == start + increment

ZLimit(start, increment, z_max) == Min(start + increment, z_max)

\* number of elements of a Python slice [start:stop] of a sequence of n elements
SliceLen(n, start, stop) == Max(0, Min(stop, n) - Min(start, n))

\* line 103, range(0, z_max, increment): the value of i after start
NextSlabSkipping(start, increment) == start + 2 * increment

NextSlab(start, increment) == start + increment

\* line 118: retry_count = 0
RetryCountCarried == retry_count

FreshRetryCount == 0

\* line 131: if retry_count > self._retry_max
RetryExhaustedEarly(count, max) == count >= max

RetryExhaustedLate(count, max) == count > max + 1

RetryExhausted(count, max) == count > max

\* the user calls upload() on a constructed session; line 102
upload ==
    /\ pc = "idle"
    /\ pc' = "up_loop"
    /\ outcome' = Running("upload")
    /\ NewOperation("upload")
    /\ UNCHANGED <<inputs, session, remote, caller>>

\* an exception leaves upload()
UploadRaise(err) == pc' = "idle" /\ outcome' = Ended("upload", "raised", err)

\* lines 103-118: the next value of i, or the end of the loop; the slab is
\* taken from the array or decoded from the files, and retry_count starts
upload_slab ==
    /\ pc = "up_loop"
    /\ IF i >= shape_z
       THEN /\ pc' = "idle"
            /\ outcome' = Ended("upload", "returned", NoName)
            /\ UNCHANGED <<z_limit, stack_len, retry_count, slabs>>
       ELSE LET zl == ZLimit(i, upload_increment, shape_z)
            IN /\ z_limit' = zl
               /\ slabs' = Append(slabs, <<i, zl>>)
               /\ IF raw_data # None
                  THEN /\ stack_len' = SliceLen(raw_len, i, zl)
                       /\ retry_count' = FreshRetryCount
                       /\ pc' = "up_try"
                       /\ outcome' = outcome
                  ELSE IF image_paths = Unset
                  THEN /\ UploadRaise("AttributeError")
                       /\ UNCHANGED <<stack_len, retry_count>>
                  ELSE IF SliceLen(data_files, i, zl) = 0
                  THEN /\ UploadRaise("ValueError")
                       /\ UNCHANGED <<stack_len, retry_count>>
                  ELSE \E res \in DecodeOutcomes :
                          IF res = "ok"
                          THEN /\ stack_len' = SliceLen(data_files, i, zl)
                               /\ retry_count' = FreshRetryCount
                               /\ pc' = "up_try"
                               /\ outcome' = outcome
                          ELSE /\ UploadRaise(res)
                               /\ UNCHANGED <<stack_len, retry_count>>
    /\ UNCHANGED <<inputs, session, remote, caller, step, i, calls, attempts, hier, prev_hier>>

\* line 123, i : i + stack_shape[0]: where the z range of the cutout ends
CutoutStopByIncrement(start, depth) == start + upload_increment

CutoutStop(start, depth) == start + depth

\* line 128, except Exception: the failures of the try body that are caught
CaughtWriteOnly(res) == res = "write_error"

CaughtInTry(res) == res \in {"AttributeError", "open_error", "write_error"}

\* line 136, continue: where a caught failure within the budget goes on, the
\* while True of line 120
RetryFromFetch == "up_loop"

RetryFrom == "up_try"

\* line 132, raise e: of the failed attempts on the slab, the one whose error
\* upload() raises
TerminalErrorFirst(failed) == failed[1].res

TerminalError(failed) == failed[Len(failed)].res

\* the remote calls of one execution of the try body: the dataset property
\* (lines 86-99) builds the handle, __setitem__ writes the cutout
TryCalls(res) ==
    IF res = "AttributeError" THEN <<>>
    ELSE IF res = "open_error"
    THEN <<Call("open", "channel", <<>>, dtype, 0, 0, res, NoName)>>
    ELSE <<Call("open", "channel", <<>>, dtype, 0, 0, "ok", NoName),
           Call("write", "channel", <<>>, dtype, i, CutoutStop(i, stack_len) - i, res, NoName)>>

\* lines 120-136: one execution of the try body and of its except clause
upload_try ==
    /\ pc = "up_try"
    /\ \E res \in (IF dtype = Unset THEN {"AttributeError"} ELSE WriteOutcomes) :
        /\ attempts' = Append(attempts, [z |-> i, len |-> stack_len, res |-> res, n |-> Len(attempts) + 1])
        /\ calls' = calls \o TryCalls(res)
        /\ IF res = "ok"
           THEN /\ i' = NextSlab(i, upload_increment)
                /\ pc' = "up_loop"
                /\ UNCHANGED <<retry_count, outcome>>
           ELSE IF ~CaughtInTry(res)
           THEN /\ UploadRaise(res)
                /\ UNCHANGED <<i, retry_count>>
           ELSE /\ retry_count' = retry_count + 1
                /\ i' = i
                /\ IF RetryExhausted(retry_count + 1, retry_max)
                   THEN UploadRaise(TerminalError(SelectSeq(attempts', LAMBDA a : a.z = i /\ a.res # "ok")))
                   ELSE /\ pc' = RetryFrom
                        /\ outcome' = outcome
    /\ UNCHANGED <<inputs, session, remote, caller, step, z_limit, stack_len, slabs, hier, prev_hier>>

\* ------------------------------------------------------------------- Next
Next ==
    \/ init
    \/ init_source
    \/ call_try_create_new
    \/ try_create_new
    \/ get_project
    \/ create_project
    \/ upload
    \/ upload_slab
    \/ upload_try

Spec == Init /\ [][Next]_vars

\* ------------------------------------------------------- derived history
\* the last operation is (or was) upload(), so attempts and slabs are its log
InUpload == outcome.op = "upload"

AttemptsAt(z) == {k \in 1..Len(attempts) : attempts[k].z = z}

FailuresAt(z) == {k \in AttemptsAt(z) : attempts[k].res # "ok"}

SlabStarts == {attempts[k].z : k \in 1..Len(attempts)}

\* a slab all of whose attempts so far failed
AllFailedAt(z) == AttemptsAt(z) # {} /\ FailuresAt(z) = AttemptsAt(z)

\* C1: Retry exhaustion. A slab whose every write attempt fails gets at most
\* retry_max + 1 attempts; upload() has raised exactly when the slab has had
\* retry_max + 1 of them, it never returns normally, and no attempt is made
\* for a slab with a larger zStart.
C1_RetryExhaustion ==
    InUpload =>
        \A z \in SlabStarts :
            AllFailedAt(z) =>
                /\ Cardinality(AttemptsAt(z)) <= retry_max + 1
                /\ (Cardinality(AttemptsAt(z)) = retry_max + 1) <=> (outcome.status = "raised")
                /\ outcome.status = "raised" => pc = "idle"
                /\ outcome.status # "returned"
                /\ \A y \in SlabStarts : y <= z

\* upload() raised on a slab that is neither the first nor the last, after retries
C1_Witness ==
    /\ InUpload
    /\ outcome.status = "raised"
    /\ retry_max >= 1
    /\ \E z \in SlabStarts :
        /\ AllFailedAt(z)
        /\ z > 0
        /\ z + upload_increment < shape_z
        /\ \E k \in AttemptsAt(z) : attempts[k].res = "write_error"

\* C2: Retry recovery with a per-slab budget. After a successful attempt on a
\* slab (reached after k <= retry_max failures) upload() has not aborted: the
\* next attempt, if any, is on the immediately following slab, and otherwise
\* upload() is at that slab or has finished the plan.  The retry counter
\* counts the failures of the current slab only.
C2_RetryRecovery ==
    InUpload =>
        /\ pc = "up_try" => retry_count = Cardinality(FailuresAt(i))
        /\ \A k \in 1..Len(attempts) :
            attempts[k].res = "ok" =>
                LET z == attempts[k].z
                IN /\ Cardinality(FailuresAt(z)) <= retry_max
                   /\ IF k < Len(attempts)
                      THEN attempts[k + 1].z = z + upload_increment
                      ELSE \/ pc \in {"up_loop", "up_try"} /\ i = z + upload_increment
                           \/ /\ pc = "idle"
                              /\ outcome.status = "returned"
                              /\ z + upload_increment >= shape_z
                           \/ /\ pc = "idle"
                              /\ outcome.status = "raised"
                              /\ outcome.err \in {"decode_error", "ValueError"}
                              /\ slabs[Len(slabs)][1] = z + upload_increment

\* three slabs, each written after one failure: more failures in total than
\* retry_max, and upload() returned
C2_Witness ==
    /\ InUpload
    /\ outcome.status = "returned"
    /\ retry_max = 2
    /\ Len(slabs) = 3
    /\ \A z \in SlabStarts : Cardinality(FailuresAt(z)) = 1
    /\ Len(attempts) = 6

\* C3: Transfer plan partition. The slab ranges upload() iterates over start
\* at 0, each starts where the previous one ends, every slab but the last has
\* length upload_increment, none passes shape_z, and when the loop has run to
\* its end they cover [0, shape_z) with a last slab of length
\* shape_z mod upload_increment, or upload_increment when that is 0.
C3_PlanPartition ==
    InUpload =>
        /\ \A k \in 1..Len(slabs) :
            /\ slabs[k][1] = (IF k = 1 THEN 0 ELSE slabs[k - 1][2])
            /\ slabs[k][1] < slabs[k][2]
            /\ slabs[k][2] <= shape_z
            /\ k < Len(slabs) => slabs[k][2] - slabs[k][1] = upload_increment
        /\ outcome.status = "returned" =>
            /\ Len(slabs) > 0
            /\ slabs[Len(slabs)][2] = shape_z
            /\ slabs[Len(slabs)][2] - slabs[Len(slabs)][1] =
                  (IF shape_z % upload_increment = 0 THEN upload_increment
                   ELSE shape_z % upload_increment)

\* a finished plan whose last slab is shorter than the increment
C3_Witness ==
    /\ InUpload
    /\ outcome.status = "returned"
    /\ shape_z = 3
    /\ upload_increment = 2
    /\ slabs = <<(<<0, 2>>), (<<2, 3>>)>>

CallsOf(ops) == {k \in 1..Len(calls) : calls[k].op \in ops}

\* __init__ has ended, by returning or by raising
ConstructionOver == outcome # Running("init")

\* the session was constructed with overwrite = False on an existing channel
ClosedGateSession == ~overwrite /\ url_exists = "yes"

\* C4: Overwrite gate (closed). In a session constructed with overwrite =
\* False on an existing channel, no get_project, create_project, dataset
\* handle or cutout write call is issued, by __init__ or by any later call.
C4_GateClosed ==
    ClosedGateSession => CallsOf({"get", "create", "open", "write"}) = {}

\* upload() was called on such a session and used up its retries without a remote call
C4_Witness ==
    /\ ClosedGateSession
    /\ InUpload
    /\ outcome.status = "raised"
    /\ Len(attempts) = retry_max + 1
    /\ retry_max >= 1

\* the source the session was given can be used: an array, or a non-empty listing
UsableSource == raw_data # None \/ data_files > 0

\* C5: Overwrite gate (open), as claimed. With overwrite = True and a usable
\* source, __init__ does not raise, and when it has returned the get_project
\* call of every provisioning step has been made; an upload() whose attempts
\* all succeed returns with every slab written.
C5_GateOpenAsClaimed ==
    (overwrite /\ UsableSource) =>
        /\ pc # "failed"
        /\ outcome = Ended("init", "returned", NoName) =>
              \A s \in 1..Len(Steps) : \E k \in CallsOf({"get"}) : calls[k].obj = Steps[s]
        /\ (InUpload /\ pc = "idle" /\ FailuresAt(0) = {} /\ \A z \in SlabStarts : FailuresAt(z) = {}) =>
              outcome.status = "returned"

\* C6: Get-or-create error discrimination, as claimed. create_project is
\* called only right after a get_project of the same descriptor answered
\* not-found; a get_project that fails otherwise is the last remote call and
\* its error is what the caller receives.
C6_ErrorDiscriminationAsClaimed ==
    \A k \in 1..Len(calls) :
        /\ calls[k].op = "create" =>
              /\ k > 1
              /\ calls[k - 1].op = "get"
              /\ calls[k - 1].obj = calls[k].obj
              /\ calls[k - 1].res = "not_found"
        /\ (calls[k].op = "get" /\ calls[k].res \in {"http_error", "conn_error"}) =>
              /\ k = Len(calls)
              /\ outcome.status = "raised"
              /\ outcome.err = calls[k].res

\* a try_create_new run that directly follows a completed run
SecondRun ==
    /\ outcome.op = "try_create_new"
    /\ prev_hier[Len(Steps)] # NoName

\* the store answered every get_project of the current run (found or not found)
StoreAnswered == \A k \in CallsOf({"get"}) : calls[k].res \in {"found", "not_found"}

\* C7: Provisioning idempotence. In a run of try_create_new that follows a
\* completed run, with the store answering its get_project calls, no
\* create_project call is issued, the run does not raise, and every step
\* resolves to the same name as in the earlier run.
C7_Idempotence ==
    (SecondRun /\ StoreAnswered) =>
        /\ CallsOf({"create"}) = {}
        /\ outcome.status # "raised"
        /\ \A s \in 1..Len(Steps) : hier[s] # NoName => hier[s] = prev_hier[s]
        /\ outcome.status = "returned" =>
              /\ hier = prev_hier
              /\ resources.experiment_coord_frame = prev_hier[2]
              /\ resources.channel_sources = <<prev_hier[4]>>

\* the second run returned; the first one had created the coordinate frame,
\* which the store resolved under another name
C7_Witness ==
    /\ SecondRun
    /\ StoreAnswered
    /\ outcome.status = "returned"
    /\ remote["coord_frame"] = Resource("CF_other", <<>>)
    /\ hier[2] = "CF_other"

\* C8: Configuration error precedes all remote interaction, as claimed. With
\* a file source whose listing is empty, __init__ ends by raising the
\* no-files error, and when that error is raised no remote call has been made.
C8_ConfigErrorFirstAsClaimed ==
    /\ (raw_data = None /\ data_files = 0 /\ ConstructionOver) =>
          outcome = Ended("init", "raised", "DataJointError")
    /\ outcome = Ended("init", "raised", "DataJointError") => calls = <<>>

\* the z slices covered by the cutout writes that succeeded
WrittenSlices ==
    UNION {calls[k].z .. (calls[k].z + calls[k].len - 1) : k \in {j \in CallsOf({"write"}) : calls[j].res = "ok"}}

StepIndex(obj) == CHOOSE s \in 1..Len(Steps) : Steps[s] = obj

\* the get_project and create_project calls of the current operation, in order
ProvCalls == SelectSeq(calls, LAMBDA c : c.op \in {"get", "create"})

\* C10: Provisioning order and resolve-then-propagate. The first provisioning
\* call is get_project(collection); every later call is either the
\* create_project of the descriptor whose get_project just failed, or the
\* get_project of the next descriptor after the previous step got its
\* resource; every Experiment descriptor sent carries the name the
\* CoordinateFrame step returned.
C10_OrderAndPropagate ==
    /\ Len(ProvCalls) > 0 => (ProvCalls[1].op = "get" /\ ProvCalls[1].obj = Steps[1])
    /\ \A k \in 2..Len(ProvCalls) :
          \/ /\ ProvCalls[k].op = "create"
             /\ ProvCalls[k - 1].op = "get"
             /\ ProvCalls[k - 1].obj = ProvCalls[k].obj
             /\ ProvCalls[k - 1].res \notin {"found", "created"}
          \/ /\ ProvCalls[k].op = "get"
             /\ ProvCalls[k - 1].res \in {"found", "created"}
             /\ StepIndex(ProvCalls[k].obj) = StepIndex(ProvCalls[k - 1].obj) + 1
    /\ \A k \in 1..Len(ProvCalls) :
          ProvCalls[k].obj = "experiment" =>
              \E j \in 1..(k - 1) :
                  /\ ProvCalls[j].obj = "coord_frame"
                  /\ ProvCalls[j].res \in {"found", "created"}
                  /\ ProvCalls[k].ref = <<ProvCalls[j].ret>>

\* all five steps ran, the frame was created under a name other than the
\* requested one, and the Experiment descriptor was sent with that name
C10_Witness ==
    /\ outcome = Ended("try_create_new", "returned", NoName)
    /\ \E j, k \in 1..Len(ProvCalls) :
          /\ ProvCalls[j].op = "create"
          /\ ProvCalls[j].obj = "coord_frame"
          /\ ProvCalls[j].ret = "CF_other"
          /\ ProvCalls[k].obj = "experiment"
          /\ ProvCalls[k].ref = <<"CF_other">>
    /\ ProvCalls[Len(ProvCalls)].obj = "channel"

\* C11: Final channel references its precursor, as claimed. When __init__ has
\* ended on a store that did not hold the destination channel, provisioning
\* has completed and the store holds the channel with sources equal to the
\* list of the precursor channel's name.
C11_FinalChannelAsClaimed ==
    (url_exists = "no" /\ ConstructionOver) =>
        /\ pc # "failed"
        /\ remote["channel"] # Absent
        /\ remote["channel"].ref = <<RequestedName("channel_resource")>>

\* the store never comes to hold the channel with a source reference: the
\* descriptor with sources is only ever sent for a name the store already holds
ChannelNeverStoredWithSources ==
    remote["channel"].ref \in {<<>>, <<"pre">>}

\* C12: Dtype is fixed before the channel is provisioned, as claimed. Whenever
\* __init__ is about to build the descriptors or runs a provisioning step,
\* self._dtype has been set, and __init__ never ends with the AttributeError
\* of reading it unset.
C12_DtypeFixedAsClaimed ==
    /\ (caller = "init" /\ pc \in {"tcn_enter", "get", "create"}) => dtype # Unset
    /\ outcome # Ended("init", "raised", "AttributeError")

\* the slab of slabs that starts at z has the depth len
SlabOfDepth(z, len) ==
    \E j \in 1..Len(slabs) : slabs[j][1] = z /\ slabs[j][2] - slabs[j][1] = len

\* C13: Writes never pass the volume bound. Every cutout write issued by
\* upload(), first attempt or retry, addresses [z, z + len) where z is the
\* start of a slab and len the depth of that slab as obtained from the
\* source, and z + len <= shape_z.
C13_WritesWithinVolume ==
    InUpload =>
        /\ \A k \in CallsOf({"write"}) :
              /\ calls[k].z + calls[k].len <= shape_z
              /\ SlabOfDepth(calls[k].z, calls[k].len)
        /\ pc = "up_try" => stack_len = z_limit - i

\* the final slab, shorter than the increment, was written on a retry
C13_Witness ==
    /\ InUpload
    /\ \E j, k \in CallsOf({"write"}) :
          /\ j < k
          /\ calls[j].z = calls[k].z
          /\ calls[j].res = "write_error"
          /\ calls[k].res = "ok"
          /\ calls[k].len < upload_increment
          /\ calls[k].z > 0
          /\ calls[k].z + calls[k].len = shape_z

\* the z starts of the slabs of the plan
PlanStarts == {y \in 0..(shape_z - 1) : y % upload_increment = 0}

\* C14: Strictly ordered, non-overlapping writes. The z starts of the attempts
\* (and of the cutout writes issued) never decrease, those of the successful
\* ones strictly increase, and a slab is attempted only after every slab of
\* the plan with a smaller start has been written successfully.
C14_OrderedWrites ==
    InUpload =>
        /\ \A j, k \in 1..Len(attempts) :
              j < k =>
                  /\ attempts[j].z <= attempts[k].z
                  /\ (attempts[j].res = "ok" /\ attempts[k].res = "ok") => attempts[j].z < attempts[k].z
        /\ \A j, k \in CallsOf({"write"}) :
              j < k =>
                  /\ calls[j].z <= calls[k].z
                  /\ (calls[j].res = "ok" /\ calls[k].res = "ok") =>
                        calls[j].z + calls[j].len <= calls[k].z
        /\ \A k \in 1..Len(attempts) :
              /\ attempts[k].z \in PlanStarts
              /\ \A y \in PlanStarts :
                    y < attempts[k].z =>
                        \E j \in 1..(k - 1) : attempts[j].z = y /\ attempts[j].res = "ok"

\* three slabs were attempted, with failures on the first and on the second
C14_Witness ==
    /\ InUpload
    /\ Cardinality(SlabStarts) = 3
    /\ \E z \in SlabStarts : z > 0 /\ FailuresAt(z) # {} /\ FailuresAt(z) # AttemptsAt(z)
    /\ FailuresAt(0) # {}

\* C15: Only the remote write is retried. Every slab is taken from the source
\* once, however many attempts are made for it: no start appears twice in
\* slabs, every attempt is for the slab fetched last, and all attempts on a
\* slab address the same range with the depth the slab was fetched with.
C15_OnlyWriteRetried ==
    InUpload =>
        /\ \A j, k \in 1..Len(slabs) : j # k => slabs[j][1] # slabs[k][1]
        /\ \A k \in 1..Len(attempts) : SlabOfDepth(attempts[k].z, attempts[k].len)
        /\ \A j, k \in CallsOf({"write"}) :
              calls[j].z = calls[k].z => calls[j].len = calls[k].len
        /\ pc = "up_try" => (Len(slabs) > 0 /\ slabs[Len(slabs)] = <<i, z_limit>>)
        /\ Len(slabs) <= Cardinality(SlabStarts) + 1

\* a slab was written at its third attempt, each slab fetched once
C15_Witness ==
    /\ InUpload
    /\ \E z \in SlabStarts :
          /\ z > 0
          /\ Cardinality(AttemptsAt(z)) = 3
          /\ FailuresAt(z) # AttemptsAt(z)
    /\ Len(slabs) = Cardinality(SlabStarts)

\* upload() ended by an exception raised while the last slab was being
\* produced: no attempt was made for it
FetchFailed ==
    /\ pc = "idle"
    /\ outcome.status = "raised"
    /\ Len(slabs) > 0
    /\ AttemptsAt(slabs[Len(slabs)][1]) = {}

\* C16, as claimed: Non-write errors are fatal immediately. In a session
\* whose construction ran to its end, a failure to obtain the dataset handle
\* ends upload() at once and is never counted in retry_count; so does a
\* failure while the slab is produced.
C16_NonWriteFatalAsClaimed ==
    (InUpload /\ dtype # Unset) =>
        /\ \A k \in 1..Len(attempts) :
              attempts[k].res \in {"open_error", "AttributeError"} =>
                  /\ k = Len(attempts)
                  /\ pc = "idle"
                  /\ outcome.status = "raised"
        /\ pc = "up_try" =>
              retry_count = Cardinality({k \in AttemptsAt(i) : attempts[k].res = "write_error"})
        /\ (outcome.status = "raised" /\ outcome.err \in {"decode_error", "ValueError"}) => FetchFailed

\* C16, amended: a failure while the slab is produced ends upload() at once,
\* with no attempt made for that slab; every failure inside the try body,
\* the dataset handle included, counts in retry_count and is followed by
\* another attempt on the same slab until retry_max + 1 attempts have failed.
C16_NonWriteFatalAmended ==
    InUpload =>
        /\ (outcome.status = "raised" /\ outcome.err \in {"decode_error", "ValueError"}) => FetchFailed
        /\ FetchFailed => outcome.err \in {"decode_error", "ValueError", "AttributeError"}
        /\ pc = "up_try" => retry_count = Cardinality(FailuresAt(i))
        /\ \A k \in 1..Len(attempts) :
              attempts[k].res # "ok" =>
                  IF k < Len(attempts)
                  THEN attempts[k + 1].z = attempts[k].z
                  ELSE \/ pc = "up_try" /\ i = attempts[k].z /\ retry_count <= retry_max
                       \/ /\ pc = "idle"
                          /\ outcome.status = "raised"
                          /\ Cardinality(FailuresAt(attempts[k].z)) = retry_max + 1

\* the first slab was written after a failure to obtain the handle, and the
\* decode failure of the second slab ended upload()
C16_Witness ==
    /\ InUpload
    /\ FetchFailed
    /\ outcome.err = "decode_error"
    /\ Len(slabs) = 2
    /\ \E k \in AttemptsAt(0) : attempts[k].res = "open_error"
    /\ \E k \in AttemptsAt(0) : attempts[k].res = "ok"

\* upload() ended because the attempts on a slab were used up
Exhausted ==
    /\ InUpload
    /\ outcome.status = "raised"
    /\ Len(attempts) > 0
    /\ attempts[Len(attempts)].res # "ok"

\* C17: Last error is the terminal error. When the attempts on a slab are
\* used up, the error upload() raises is the error of the last attempt, which
\* is the (retry_max + 1)-th attempt on that slab.
C17_LastErrorTerminal ==
    Exhausted =>
        LET last == attempts[Len(attempts)]
        IN /\ outcome.err = last.res
           /\ Cardinality(AttemptsAt(last.z)) = retry_max + 1
           /\ \A k \in AttemptsAt(last.z) : k <= Len(attempts) /\ attempts[k].res # "ok"

\* the first failure on the slab was another error than the last one
C17_Witness ==
    /\ Exhausted
    /\ retry_max >= 1
    /\ attempts[Len(attempts)].res = "write_error"
    /\ \E k \in AttemptsAt(attempts[Len(attempts)].z) : attempts[k].res = "open_error"

\* ceil(shape_z / upload_increment)
PlanSize == (shape_z + upload_increment - 1) \div upload_increment

\* the slabs from i on
RemainingSlabs ==
    IF i >= shape_z THEN 0 ELSE (shape_z - i + upload_increment - 1) \div upload_increment

\* the number of steps upload() can still take: one to fetch each remaining
\* slab, retry_max + 1 attempts on each, one to leave the loop
Measure ==
    CASE pc = "up_loop" -> RemainingSlabs * (retry_max + 2) + 1
      [] pc = "up_try" -> (RemainingSlabs - 1) * (retry_max + 2) + (retry_max + 1 - retry_count) + 1
      [] OTHER -> 0

\* a step taken inside upload() decreases the measure
MeasureDecreases == pc \in {"up_loop", "up_try"} => (Measure' < Measure)

\* C18: Upload always terminates. upload() makes at most
\* ceil(shape_z / upload_increment) * (retry_max + 1) attempts; every step of
\* upload() strictly decreases a non-negative measure, and when upload() is
\* not in its loop it has returned or raised.
C18_Terminates ==
    /\ [](InUpload =>
            /\ Len(attempts) <= PlanSize * (retry_max + 1)
            /\ Measure >= 0
            /\ pc \in {"up_loop", "up_try"} => Measure > 0
            /\ pc \notin {"up_loop", "up_try"} =>
                  (pc = "idle" /\ outcome.status \in {"returned", "raised"}))
    /\ [][MeasureDecreases]_vars

\* upload() ended having made as many attempts as the bound allows
C18_Witness ==
    /\ InUpload
    /\ pc = "idle"
    /\ PlanSize >= 2
    /\ retry_max >= 1
    /\ Len(attempts) = PlanSize * (retry_max + 1)
====
